---- MODULE Spec2Model ----
(***************************************************************************)
(* Model of the reconnecting WebSocket RPC session manager of              *)
(* react-capnweb (initCapnWebSocket) together with the lifecycle wrapper   *)
(* (createCapnWebHooksWithLifecycle) through which its stub accessor and   *)
(* close() are exposed.                                                    *)
(*                                                                         *)
(* One action per event-loop turn: a channel signal (open, error, close),  *)
(* a timer callback, a provider mount or unmount, an exposed close() call. *)
(* Channels follow the WebSocket API: a channel delivers open only while   *)
(* it is connecting, and delivers exactly one close signal.                *)
(***************************************************************************)
EXTENDS Integers, Sequences, FiniteSets, TLC

\* ---------------------------------------------------------------- bounds
MaxRetries == 2
MaxOpens == 2
MaxCloseCalls == 2
NumProviders == 1
NumSubscribers == 1
MaxAttempt == 8
MaxPromises == 2
MaxTicks == 2
MaxFactoryCalls == 2
MaxDuplicates == 1
MaxSweeps == 2

\* ------------------------------------------------------------- constants
Null == -1
timeout == 5000
JitterSet == {0, 999}
JitterSamples == {0, 1, 250, 500, 750, 998, 999}
Strategies == {"default", "fixed", "linear"}
Providers == 1..NumProviders
Subscribers == 1..NumSubscribers
Consumers == {1, 2}
STALE_PROMISE_MS == 60000

VARIABLES
  retries,            \* opts.retries
  backoffStrategy,    \* opts.backoffStrategy (which function was configured)
  throwing,           \* consumer callbacks that throw when invoked
  chan,               \* channel id -> readiness of that WebSocket
  timers,             \* timers armed in the event loop
  currentWs,
  retryCount,
  reconnectTimeout,
  connectionTimeout,
  isReconnecting,
  connectionState,
  session,            \* the manager's current session (bound to channel of same id)
  disposed,           \* session id -> number of Symbol.dispose invocations
  coreSession,        \* the lifecycle wrapper's own `session` cell
  isClosed,
  provider,           \* provider id -> [mounted, currentSession]
  factoryCalls,       \* number of sessionFactory() invocations of the wrapper so far
  published,          \* every state handed to setConnectionState, in order
  calls,              \* every consumer callback invocation, in order
  scheduled,          \* the attempt number of every reconnect timer armed, in order
  evaluated,          \* the argument of every call of opts.backoffStrategy, in order
  closeCalls,         \* number of exposed close() invocations so far
  stateListeners,     \* components whose useConnectionState listener is registered
  hookState,          \* component -> its useConnectionState hook: phase, state, notifications
  backoffArg,         \* argument of a direct defaultBackoffStrategy call
  backoffRandom,      \* what Math.random() * 1000 yields in that call
  backoffResult,      \* what the call returned
  promiseCache,       \* cache key -> index of its PromiseTracker in `trackers`
  trackers,           \* every PromiseTracker created, in order (index = promise identity)
  consumer,           \* component -> its useCapnWeb hook: phase, call, promise in hand
  now,                \* Date.now()
  sweeps,             \* number of runs of the cleanup interval callback
  transportKind,      \* initCapnCustomTransport got a transport "object" or a "factory"
  supportsAbort,      \* the transport has an abort function
  sessionDisposable,  \* the RpcSession has a Symbol.dispose function
  currentTransport,   \* custom transport: the transport kept for cleanup
  rpcSession,         \* custom transport: the RpcSession kept for cleanup
  transportLog        \* custom transport: creations, aborts and disposals, in order

config == <<retries, backoffStrategy, throwing>>
wsVars == <<currentWs, retryCount, reconnectTimeout, connectionTimeout,
            isReconnecting, connectionState, session>>
coreVars == <<coreSession, isClosed, provider, factoryCalls>>
history == <<published, calls, scheduled, evaluated, closeCalls>>
listenerVars == <<stateListeners, hookState>>
fnVars == <<backoffArg, backoffRandom, backoffResult>>
cacheVars == <<promiseCache, trackers, consumer, now, sweeps>>
customVars == <<transportKind, supportsAbort, sessionDisposable, currentTransport,
                rpcSession, transportLog>>
libVars == <<fnVars, cacheVars, customVars>>
vars == <<config, chan, timers, wsVars, disposed, coreVars, history, listenerVars, libVars>>

\* ------------------------------------------------------ connection states
St(status, attempt, nextRetryMs, reason) ==
  [status |-> status, attempt |-> attempt, nextRetryMs |-> nextRetryMs, reason |-> reason]

Connecting(attempt) == St("connecting", attempt, Null, "")
Connected == St("connected", Null, Null, "")
Reconnecting(attempt, delay) == St("reconnecting", attempt, delay, "")
Disconnected == St("disconnected", Null, Null, "")
DisconnectedMax == St("disconnected", Null, Null, "Max retries reached")
Closed == St("closed", Null, Null, "")

\* the entry of `published` for a state: the state without its nextRetryMs
Pub(state) == [state EXCEPT !.nextRetryMs = Null]

Call(name, arg) == [name |-> name, arg |-> arg]

\* ----------------------------------------------------------------- timers
\* a timer of the event loop: which callback, for which channel (connect) or
\* retry number (reconnect), armed with which delay
NoTimer == [kind |-> "none", id |-> Null, delay |-> Null]
ConnectTimer(ws) == [kind |-> "connect", id |-> ws, delay |-> timeout]
ReconnectTimer(n, delay) == [kind |-> "reconnect", id |-> n, delay |-> delay]

setTimeout(ts, t) == ts \cup {t}

clearTimeout(ts, t) == ts \ {t}

\* ---------------------------------------------------------------- backoff
Min(a, b) == IF a < b THEN a ELSE b

baseDelay_Uncapped(n) == 1000 * 2^(n - 1)

\* 1000 * Math.pow(2, retryCount - 1), capped
baseDelay(n) == Min(IF n >= 1 THEN 1000 * 2^(n - 1) ELSE 1000 \div 2^(1 - n), 30000)

backoffDelay(n, jitter) == baseDelay(n) + jitter

defaultBackoffStrategy(n) ==
  { backoffDelay(n, jitter) : jitter \in JitterSet }

\* the values opts.backoffStrategy(n) can return
BackoffResults(strategy, n) ==
  CASE strategy = "default" -> defaultBackoffStrategy(n)
    [] strategy = "fixed" -> {5000}
    [] strategy = "linear" -> {n * 2000}
    [] strategy = "negative" -> {0 - 1000}

\* ------------------------------------------------------- small code pieces
\* (each is preceded by the faulty variants used to test the properties below)
disposeSession_Skipped(d, sess) == d

disposeSession(d, sess) ==
  IF sess # Null THEN [d EXCEPT ![sess] = @ + 1] ELSE d

clearPendingTimers_OnlyConnect(ts, reconnect, connect) == clearTimeout(ts, connect)

\* close(): cancel the reconnect timer and the connect-timeout
clearPendingTimers(ts, reconnect, connect) ==
  clearTimeout(clearTimeout(ts, reconnect), connect)

wsClose_Noop(r) == r

\* WebSocket.close() on a channel of the given readiness
wsClose(r) == IF r \in {"connecting", "open"} THEN "closing" ELSE r

alreadyClosed_Unchecked(state) == FALSE

alreadyClosed(state) == state.status = "closed"

shouldRetry_OffByOne(count, max) == count <= max

shouldRetry(count, max) == count < max

connectingAttempt_Next(count) == count + 1

connectingAttempt(count) == count

reconnectSession_Stale(old, new) == old

\* the reconnect timer's `session = initWebsocket()`
reconnectSession(old, new) == new

onReconnectingArg_Previous(count) == count - 1

\* the argument of options.onReconnecting(retryCount)
onReconnectingArg(count) == count

\* the sequence of states as `published` and `observed` record them
PubSeq(states) == [i \in 1..Len(states) |-> Pub(states[i])]

notifyStateListeners_Coalesced(h, listeners, states) ==
  [s \in Subscribers |->
     IF s \in listeners
     THEN [h[s] EXCEPT !.state = states[Len(states)],
                       !.observed = Append(@, Pub(states[Len(states)]))]
     ELSE h[s]]

\* successive setConnectionState(state) calls of one handler: each calls every
\* registered listener, whose setState stores the state in the hook
notifyStateListeners(h, listeners, states) ==
  [s \in Subscribers |->
     IF s \in listeners
     THEN [h[s] EXCEPT !.state = states[Len(states)],
                       !.observed = @ \o PubSeq(states)]
     ELSE h[s]]

needsSession_IgnoresClosed(cell, closed) == cell = Null

\* the provider's `if (!session && !isClosed)`
needsSession(cell, closed) == cell = Null /\ ~closed

strategyArg_BeforeIncrement(count) == count - 1

\* `retryCount++; const delay = opts.backoffStrategy(retryCount)`: the argument
\* is the incremented counter
strategyArg(count) == count

cancelConnectTimeout_Skipped(ts, t) == ts

\* handleClose: `if (connectionTimeout) { clearTimeout(connectionTimeout); ... }`
cancelConnectTimeout(ts, t) == clearTimeout(ts, t)

reconnectPending_Unchecked(flag) == FALSE

\* `if (isReconnecting) return` of handleClose
reconnectPending(flag) == flag

retryCountOnOpen_Kept(count) == count

retryCountOnOpen(count) == 0

\* ------------------------------------------------------------------ Init
\* State right after initCapnWebSocket(wsUrl, options) returned: the first
\* channel (id 0) is connecting, its connect-timeout is armed, no provider
\* has mounted yet.
ManagerInitFor(throwSets, strategies) ==
  /\ retries \in 0..MaxRetries
  /\ backoffStrategy \in strategies
  /\ throwing \in throwSets
  /\ chan = (0 :> "connecting")
  /\ timers = {ConnectTimer(0)}
  /\ currentWs = 0
  /\ retryCount = 0
  /\ reconnectTimeout = NoTimer
  /\ connectionTimeout = ConnectTimer(0)
  /\ isReconnecting = FALSE
  /\ connectionState = Connecting(0)
  /\ session = 0
  /\ disposed = (0 :> 0)
  /\ coreSession = Null
  /\ isClosed = FALSE
  /\ provider = [p \in Providers |-> [mounted |-> FALSE, currentSession |-> Null]]
  /\ factoryCalls = 0
  /\ published = <<Connecting(0)>>
  /\ calls = <<>>
  /\ scheduled = <<>>
  /\ evaluated = <<>>
  /\ closeCalls = 0

ManagerInit(throwSets) == ManagerInitFor(throwSets, Strategies)

\* no component uses useConnectionState yet
NoHook == [phase |-> "unmounted", state |-> Null, observed |-> <<>>]

NoListeners ==
  /\ stateListeners = {}
  /\ hookState = [s \in Subscribers |-> NoHook]

\* defaultBackoffStrategy is not called on its own
NoBackoffCall == backoffArg = Null /\ backoffRandom = Null /\ backoffResult = Null

\* no component uses useCapnWeb yet: the cache of the hook set is empty
NoCall == [apiName |-> "", args |-> <<>>]

NoConsumer == [phase |-> "unmounted", call |-> Null, promise |-> Null, attached |-> NoCall]

EmptyCache ==
  /\ promiseCache = [k \in {} |-> Null]
  /\ trackers = <<>>
  /\ consumer = [c \in Consumers |-> NoConsumer]
  /\ now = 0
  /\ sweeps = 0

\* initCapnCustomTransport is not used
NoCustomTransport ==
  /\ transportKind = "none"
  /\ supportsAbort = FALSE
  /\ sessionDisposable = FALSE
  /\ currentTransport = Null
  /\ rpcSession = Null
  /\ transportLog = <<>>

InitWith(throwSets) ==
  /\ ManagerInit(throwSets)
  /\ NoListeners
  /\ NoBackoffCall
  /\ EmptyCache
  /\ NoCustomTransport

Init == InitWith({{}})

\* --------------------------------------------------------- history helpers
opens == Cardinality({i \in 1..Len(published) : published[i] = Connected})

\* handled close signals: each publishes one plain Disconnected
handledCloses == Cardinality({i \in 1..Len(published) : published[i] = Disconnected})

closedTransitions == Cardinality({i \in 1..Len(published) : published[i] = Closed})

NumCalls(name) == Cardinality({i \in 1..Len(calls) : calls[i].name = name})

\* ------------------------------------------------------ setConnectionState
\* successive setConnectionState calls of one handler (connectionState itself
\* is assigned by the caller)
Publish(states) ==
  /\ published' = published \o PubSeq(states)
  /\ hookState' = notifyStateListeners(hookState, stateListeners, states)

\* --------------------------------------------------- channel "open" signal
ChannelOpen(c) ==
  /\ chan[c] = "connecting"
  /\ opens < MaxOpens
  /\ chan' = [chan EXCEPT ![c] = "open"]
  /\ retryCount' = retryCountOnOpen(retryCount)
  /\ timers' = clearTimeout(timers, connectionTimeout)
  /\ connectionTimeout' = NoTimer
  /\ connectionState' = Connected
  /\ Publish(<<Connected>>)
  /\ calls' = Append(calls, Call("onConnected", Null))
  /\ UNCHANGED <<config, libVars, currentWs, reconnectTimeout, isReconnecting, session,
                 disposed, coreVars, scheduled, evaluated, closeCalls, stateListeners>>

\* ------------------------------------------------------------- handleClose
handleClose ==
  IF alreadyClosed(connectionState)
  THEN UNCHANGED <<timers, retryCount, reconnectTimeout, connectionTimeout,
                   isReconnecting, connectionState, published, hookState, calls,
                   scheduled, evaluated>>
  ELSE
    /\ connectionTimeout' = NoTimer
    /\ IF reconnectPending(isReconnecting)
       THEN /\ timers' = cancelConnectTimeout(timers, connectionTimeout)
            /\ UNCHANGED <<retryCount, reconnectTimeout, isReconnecting,
                           connectionState, published, hookState, calls, scheduled, evaluated>>
       ELSE IF "onDisconnected" \in throwing
       THEN /\ timers' = cancelConnectTimeout(timers, connectionTimeout)
            /\ connectionState' = Disconnected
            /\ Publish(<<Disconnected>>)
            /\ calls' = Append(calls, Call("onDisconnected", Null))
            /\ UNCHANGED <<retryCount, reconnectTimeout, isReconnecting, scheduled, evaluated>>
       ELSE IF shouldRetry(retryCount, retries)
       THEN \E delay \in BackoffResults(backoffStrategy, strategyArg(retryCount + 1)) :
              LET attempt == retryCount + 1
                  t == ReconnectTimer(Len(scheduled) + 1, delay)
              IN /\ isReconnecting' = TRUE
                 /\ evaluated' = Append(evaluated, strategyArg(attempt))
                 /\ retryCount' = attempt
                 /\ connectionState' = Reconnecting(attempt, delay)
                 /\ Publish(<<Disconnected, Reconnecting(attempt, delay)>>)
                 /\ calls' = calls \o <<Call("onDisconnected", Null),
                                        Call("onReconnecting", onReconnectingArg(attempt))>>
                 /\ IF "onReconnecting" \in throwing
                    THEN /\ timers' = cancelConnectTimeout(timers, connectionTimeout)
                         /\ UNCHANGED <<reconnectTimeout, scheduled>>
                    ELSE /\ timers' = setTimeout(cancelConnectTimeout(timers, connectionTimeout), t)
                         /\ reconnectTimeout' = t
                         /\ scheduled' = Append(scheduled, attempt)
       ELSE /\ timers' = cancelConnectTimeout(timers, connectionTimeout)
            /\ connectionState' = DisconnectedMax
            /\ Publish(<<Disconnected, DisconnectedMax>>)
            /\ calls' = calls \o <<Call("onDisconnected", Null),
                                   Call("onReconnectFailed", Null)>>
            /\ UNCHANGED <<retryCount, reconnectTimeout, isReconnecting, scheduled, evaluated>>

\* -------------------------------------------------- channel "error" signal
\* an error listener that would run the failure path itself
ChannelError_HandlesClose(c) ==
  /\ chan[c] \in {"connecting", "open", "closing"}
  /\ chan' = [chan EXCEPT ![c] = "failing"]
  /\ handleClose
  /\ UNCHANGED <<config, libVars, currentWs, session, disposed, coreVars, closeCalls,
                 stateListeners>>

\* An error signal is always followed by the close signal of the same channel.
ChannelError(c) ==
  /\ chan[c] \in {"connecting", "open", "closing"}
  /\ chan' = [chan EXCEPT ![c] = "failing"]
  /\ timers' = clearTimeout(timers, connectionTimeout)
  /\ connectionTimeout' = NoTimer
  /\ UNCHANGED <<config, libVars, currentWs, retryCount, reconnectTimeout, isReconnecting,
                 connectionState, session, disposed, coreVars, history, listenerVars>>

\* -------------------------------------------------- channel "close" signal
ChannelClose(c) ==
  /\ chan[c] \in {"connecting", "open", "failing", "closing"}
  /\ chan' = [chan EXCEPT ![c] = "closed"]
  /\ handleClose
  /\ UNCHANGED <<config, libVars, currentWs, session, disposed, coreVars, closeCalls,
                 stateListeners>>

\* ------------------------------------------- connect-timeout timer callback
ConnectTimeoutFire(t) ==
  /\ t.kind = "connect"
  /\ timers' = timers \ {t}
  /\ chan' = [chan EXCEPT ![t.id] = wsClose(@)]
  /\ connectionTimeout' = NoTimer
  /\ UNCHANGED <<config, libVars, currentWs, retryCount, reconnectTimeout, isReconnecting,
                 connectionState, session, disposed, coreVars, history, listenerVars>>

\* ------------------------------- reconnect timer callback and initWebsocket
ReconnectTimerFire(t) ==
  LET ws == Cardinality(DOMAIN chan)
  IN /\ t.kind = "reconnect"
     /\ isReconnecting' = FALSE
     /\ reconnectTimeout' = NoTimer
     /\ disposed' = disposeSession(disposed, session) @@ (ws :> 0)
     \* initWebsocket()
     /\ chan' = chan @@ (ws :> "connecting")
     /\ currentWs' = ws
     /\ connectionState' = Connecting(connectingAttempt(retryCount))
     /\ Publish(<<Connecting(connectingAttempt(retryCount))>>)
     /\ connectionTimeout' = ConnectTimer(ws)
     /\ timers' = setTimeout(timers \ {t}, ConnectTimer(ws))
     /\ session' = reconnectSession(session, ws)
     /\ UNCHANGED <<config, libVars, retryCount, coreVars, calls, scheduled, evaluated, closeCalls,
                    stateListeners>>

\* ------------------------------------------ close() of initCapnWebSocket
\* the transport cleanup passed to the lifecycle wrapper as onClose
webSocketClose ==
  /\ timers' = clearPendingTimers(timers, reconnectTimeout, connectionTimeout)
  /\ reconnectTimeout' = NoTimer
  /\ connectionTimeout' = NoTimer
  /\ chan' = IF currentWs # Null THEN [chan EXCEPT ![currentWs] = wsClose(@)] ELSE chan
  /\ currentWs' = Null
  /\ connectionState' = Closed
  /\ Publish(<<Closed>>)
  /\ UNCHANGED <<retryCount, isReconnecting, session, calls, scheduled, evaluated>>

\* ------------------------------- exposed close() of the lifecycle wrapper
Close ==
  /\ closeCalls < MaxCloseCalls
  /\ closeCalls' = closeCalls + 1
  /\ IF isClosed
     THEN UNCHANGED <<chan, timers, wsVars, disposed, coreVars, published, hookState,
                      calls, scheduled, evaluated>>
     ELSE /\ isClosed' = TRUE
          /\ webSocketClose
          \* webSocketClose disposes its session, then the wrapper disposes its own
          /\ disposed' = disposeSession(disposeSession(disposed, session), coreSession)
          \* notifyListeners()
          /\ provider' = [p \in Providers |->
                            IF provider[p].mounted
                            THEN [provider[p] EXCEPT !.currentSession = coreSession]
                            ELSE provider[p]]
          /\ UNCHANGED <<coreSession, factoryCalls>>
  /\ UNCHANGED <<config, libVars, stateListeners>>

\* --------------------------------------------- CapnWebProvider mount/unmount
Mount(p) ==
  /\ ~provider[p].mounted
  \* session = initSession(), which returns sessionFactory()
  /\ IF needsSession(coreSession, isClosed)
     THEN coreSession' = session /\ factoryCalls' = factoryCalls + 1
     ELSE UNCHANGED <<coreSession, factoryCalls>>
  /\ provider' = [provider EXCEPT ![p] = [mounted |-> TRUE, currentSession |-> coreSession']]
  /\ UNCHANGED <<config, libVars, chan, timers, wsVars, disposed, isClosed, history, listenerVars>>

Unmount_ClosesSocket(p) ==
  /\ provider[p].mounted
  /\ provider' = [provider EXCEPT ![p] = [mounted |-> FALSE, currentSession |-> Null]]
  /\ chan' = IF currentWs # Null THEN [chan EXCEPT ![currentWs] = wsClose(@)] ELSE chan
  /\ UNCHANGED <<config, libVars, timers, wsVars, disposed, coreSession, isClosed,
                 factoryCalls, history, listenerVars>>

Unmount(p) ==
  /\ provider[p].mounted
  /\ provider' = [provider EXCEPT ![p] = [mounted |-> FALSE, currentSession |-> Null]]
  /\ UNCHANGED <<config, libVars, chan, timers, wsVars, disposed, coreSession, isClosed,
                 factoryCalls, history, listenerVars>>

\* the stub accessor exposed to consumers below provider p (Null: it throws)
useCapnWebApi(p) == provider[p].currentSession

\* ------------------------------------------------------------------- Next
Next ==
  \/ \E c \in DOMAIN chan : ChannelOpen(c)
  \/ \E c \in DOMAIN chan : ChannelError(c)
  \/ \E c \in DOMAIN chan : ChannelClose(c)
  \/ \E t \in timers : ConnectTimeoutFire(t)
  \/ \E t \in timers : ReconnectTimerFire(t)
  \/ Close
  \/ \E p \in Providers : Mount(p)
  \/ \E p \in Providers : Unmount(p)

Spec == Init /\ [][Next]_vars

\* Armed timers fire, and a channel that was force-closed or has signalled an
\* error delivers its close signal.
PendingClose == \E c \in DOMAIN chan : chan[c] \in {"closing", "failing"} /\ ChannelClose(c)

Fairness ==
  /\ WF_vars(\E t \in timers : ConnectTimeoutFire(t))
  /\ WF_vars(\E t \in timers : ReconnectTimerFire(t))
  /\ WF_vars(PendingClose)

FairSpec == Init /\ [][Next]_vars /\ Fairness

\* ------------------------------------------------------ useConnectionState
\* first render of a component that calls the hook: useState(connectionState)
RenderHook(s) ==
  /\ hookState[s].phase = "unmounted"
  /\ hookState' = [hookState EXCEPT ![s] = [phase |-> "rendered",
                                             state |-> connectionState,
                                             observed |-> <<>>]]
  /\ UNCHANGED <<config, libVars, chan, timers, wsVars, disposed, coreVars, history, stateListeners>>

\* its effect: register the listener, then setState(connectionState)
SubscribeHook(s) ==
  /\ hookState[s].phase = "rendered"
  /\ stateListeners' = stateListeners \cup {s}
  /\ hookState' = [hookState EXCEPT ![s] = [phase |-> "subscribed",
                                             state |-> connectionState,
                                             observed |-> <<Pub(connectionState)>>]]
  /\ UNCHANGED <<config, libVars, chan, timers, wsVars, disposed, coreVars, history>>

\* the effect's cleanup when the component unmounts
UnsubscribeHook(s) ==
  /\ hookState[s].phase = "subscribed"
  /\ stateListeners' = stateListeners \ {s}
  /\ hookState' = [hookState EXCEPT ![s] = NoHook]
  /\ UNCHANGED <<config, libVars, chan, timers, wsVars, disposed, coreVars, history>>

\* the manager observed by components that use the hook (the hook does not
\* depend on a provider)
NextObserved ==
  \/ \E c \in DOMAIN chan : ChannelOpen(c)
  \/ \E c \in DOMAIN chan : ChannelError(c)
  \/ \E c \in DOMAIN chan : ChannelClose(c)
  \/ \E t \in timers : ConnectTimeoutFire(t)
  \/ \E t \in timers : ReconnectTimerFire(t)
  \/ Close
  \/ \E s \in Subscribers : RenderHook(s)
  \/ \E s \in Subscribers : SubscribeHook(s)
  \/ \E s \in Subscribers : UnsubscribeHook(s)

\* what subscribers are told does not depend on the retry delays: one
\* strategy, and fewer retries than in the runs without observers
ObservedInit == Init /\ backoffStrategy = "fixed" /\ retries < MaxRetries

ObservedSpec == ObservedInit /\ [][NextObserved]_vars

\* -------------------------------------------- defaultBackoffStrategy alone
\* the function applied to a retry count n >= 1 and a draw of Math.random()
BackoffInit ==
  /\ ManagerInit({{}})
  /\ retries = 0
  /\ backoffStrategy = "default"
  /\ NoListeners
  /\ EmptyCache
  /\ NoCustomTransport
  /\ backoffArg \in 1..MaxAttempt
  /\ backoffRandom \in JitterSamples
  /\ backoffResult = Null

ComputeDelay ==
  /\ backoffResult = Null
  /\ backoffResult' = backoffDelay(backoffArg, backoffRandom)
  /\ UNCHANGED <<config, chan, timers, wsVars, disposed, coreVars, history, listenerVars,
                 cacheVars, customVars, backoffArg, backoffRandom>>

BackoffSpec == BackoffInit /\ [][ComputeDelay]_vars

\* the same program configured with one consumer callback that throws
Callbacks == {"onConnected", "onDisconnected", "onReconnecting", "onReconnectFailed"}

InitThrow == InitWith({{cb} : cb \in Callbacks})

ThrowSpec == InitThrow /\ [][Next]_vars

\* the same program configured with a backoffStrategy that returns a negative
\* number of milliseconds
NegativeInit ==
  /\ ManagerInitFor({{}}, {"negative"})
  /\ NoListeners
  /\ NoBackoffCall
  /\ EmptyCache
  /\ NoCustomTransport

NegativeSpec == NegativeInit /\ [][Next]_vars

\* ------------------------------------ a close signal delivered a second time
\* channels whose close listener has run twice
duplicates == Cardinality({c \in DOMAIN chan : chan[c] = "closedTwice"})

\* the close listener of a channel runs again after it has run once
DuplicateClose(c) ==
  /\ chan[c] = "closed"
  /\ duplicates < MaxDuplicates
  /\ chan' = [chan EXCEPT ![c] = "closedTwice"]
  /\ handleClose
  /\ UNCHANGED <<config, libVars, currentWs, session, disposed, coreVars, closeCalls,
                 stateListeners>>

\* the manager with channels that may repeat their close signal, up to the
\* first established connection and what follows it
DupNext ==
  \/ \E c \in DOMAIN chan : opens = 0 /\ ChannelOpen(c)
  \/ \E c \in DOMAIN chan : ChannelError(c)
  \/ \E c \in DOMAIN chan : ChannelClose(c)
  \/ \E c \in DOMAIN chan : DuplicateClose(c)
  \/ \E t \in timers : ConnectTimeoutFire(t)
  \/ \E t \in timers : ReconnectTimerFire(t)
  \/ Close

\* which failure signals are handled does not depend on the retry delays: one
\* strategy
DupInit == Init /\ backoffStrategy = "fixed"

DupSpec == DupInit /\ [][DupNext]_vars

\* ------------------------------------------------- result cache: the keys
\* JavaScript values passed as arguments of an RPC method
JsNumber(n) == [type |-> "number", n |-> n]
JsString(str) == [type |-> "string", s |-> str]
JsNull == [type |-> "null"]
JsUndefined == [type |-> "undefined"]
JsNaN == [type |-> "NaN"]

\* the text JSON.stringify writes for an array element, as a sequence of tokens:
\* numbers in decimal, strings quoted, and null for null, undefined and NaN
JSONValue(v) ==
  CASE v.type = "number" -> <<ToString(v.n)>>
    [] v.type = "string" -> <<"\"", v.s, "\"">>
    [] v.type \in {"null", "undefined", "NaN"} -> <<"null">>

RECURSIVE JSONElements(_)
JSONElements(arr) ==
  IF Len(arr) = 0 THEN <<>>
  ELSE IF Len(arr) = 1 THEN JSONValue(arr[1])
  ELSE JSONValue(arr[1]) \o <<",">> \o JSONElements(Tail(arr))

\* JSON.stringify of an array
JSONstringify(arr) == <<"[">> \o JSONElements(arr) \o <<"]">>

\* a call useCapnWeb(apiName, ...args)
Rpc(apiName, args) == [apiName |-> apiName, args |-> args]

\* the calls the components make
Calls ==
  { Rpc("add", <<JsNumber(5), JsNumber(3)>>),
    Rpc("add", <<JsNumber(3), JsNumber(5)>>),
    Rpc("find", <<JsNull>>),
    Rpc("find", <<JsUndefined>>) }

\* currCacheKey of useCapnWeb
useCapnWebKey(call) == JSONstringify(<<JsString(call.apiName)>> \o call.args)

\* a call useCapnWebQuery(operationName, fn, ...deps)
Query(operationName, deps) == [operationName |-> operationName, deps |-> deps]

\* currCacheKey of useCapnWebQuery
useCapnWebQueryKey(query) ==
  JSONstringify(<<JsString("!" \o query.operationName)>> \o query.deps)

\* the key the hook a component calls hands to useNamedPromise
currCacheKey(call) ==
  IF "operationName" \in DOMAIN call THEN useCapnWebQueryKey(call) ELSE useCapnWebKey(call)

\* ---------------------------------------------- result cache: the entries
Tracker(key, call, api, timestamp) ==
  [status |-> "pending", key |-> key, call |-> call, api |-> api, timestamp |-> timestamp]

cacheHit_PendingOnly(cache, ts, key) ==
  key \in DOMAIN cache /\ ts[cache[key]].status = "pending"

\* `promiseCache.get(currCacheKey)?.promise` is a promise
cacheHit(cache, ts, key) == key \in DOMAIN cache

cacheDelete(cache, key) == [k \in DOMAIN cache \ {key} |-> cache[k]]

cleanCache_KeepsPending(cache, ts, key, deletePending) ==
  IF key \in DOMAIN cache /\ ts[cache[key]].status # "pending"
  THEN cacheDelete(cache, key)
  ELSE cache

cleanCache(cache, ts, key, deletePending) ==
  IF key \in DOMAIN cache /\ (deletePending \/ ts[cache[key]].status # "pending")
  THEN cacheDelete(cache, key)
  ELSE cache

cleanStalePromises_AtThreshold(cache, ts, time) ==
  LET stale == {k \in DOMAIN cache :
                  /\ ts[cache[k]].status # "pending"
                  /\ time - ts[cache[k]].timestamp >= STALE_PROMISE_MS}
  IN [k \in DOMAIN cache \ stale |-> cache[k]]

cleanStalePromises(cache, ts, time) ==
  LET stale == {k \in DOMAIN cache :
                  /\ ts[cache[k]].status # "pending"
                  /\ time - ts[cache[k]].timestamp > STALE_PROMISE_MS}
  IN [k \in DOMAIN cache \ stale |-> cache[k]]

\* use(prom): suspend on a pending promise, throw the reason of a rejected
\* one, return the value of a resolved one
use(promiseStatus) ==
  CASE promiseStatus = "pending" -> "suspended"
    [] promiseStatus = "rejected" -> "failed"
    [] promiseStatus = "resolved" -> "rendered"

\* --------------------------------------------------- useCapnWeb (render)
\* a component below a mounted provider renders useCapnWeb(apiName, ...args):
\* for the first time, again after its render suspended or failed, or, once
\* its effect is attached, again with the same or with other arguments
\* (`attached` is the call whose effect is in place)
RenderConsumer(c, call) ==
  LET key == currCacheKey(call)
      hit == cacheHit(promiseCache, trackers, key)
      prom == IF hit THEN promiseCache[key] ELSE Len(trackers) + 1
  IN /\ \/ consumer[c].phase \in {"unmounted", "attached"}
        \/ consumer[c].phase = "suspended" /\ consumer[c].call = call
        \/ /\ consumer[c].phase = "failed"
           /\ consumer[c].call = call
           /\ consumer[c].attached = NoCall
     /\ \E p \in Providers :
          /\ useCapnWebApi(p) # Null
          /\ IF hit
             THEN UNCHANGED <<promiseCache, trackers>>
             ELSE /\ Len(trackers) < MaxPromises
                  /\ trackers' = Append(trackers, Tracker(key, call, useCapnWebApi(p), now))
                  /\ promiseCache' = (key :> prom) @@ promiseCache
     /\ consumer' = [consumer EXCEPT ![c] = [phase |-> use(trackers'[prom].status),
                                             call |-> call,
                                             promise |-> prom,
                                             attached |-> consumer[c].attached]]
     /\ UNCHANGED <<config, chan, timers, wsVars, disposed, coreVars, history, listenerVars,
                    fnVars, customVars, now, sweeps>>

\* useEffect(..., [currCacheKey]) at the commit of a completed render: when the
\* key changed, the cleanup of the previous effect, cleanCache(oldKey, true),
\* and then the effect, cleanCache(currCacheKey); nothing when the key is the
\* one of the effect in place
commitEffects(cache, ts, old, call) ==
  IF old = NoCall
  THEN cleanCache(cache, ts, currCacheKey(call), FALSE)
  ELSE IF currCacheKey(old) = currCacheKey(call)
  THEN cache
  ELSE cleanCache(cleanCache(cache, ts, currCacheKey(old), TRUE),
                  ts, currCacheKey(call), FALSE)

CommitConsumer(c) ==
  /\ consumer[c].phase = "rendered"
  /\ consumer' = [consumer EXCEPT ![c].phase = "attached", ![c].attached = consumer[c].call]
  /\ promiseCache' = commitEffects(promiseCache, trackers, consumer[c].attached,
                                   consumer[c].call)
  /\ UNCHANGED <<config, chan, timers, wsVars, disposed, coreVars, history, listenerVars,
                 fnVars, customVars, trackers, now, sweeps>>

\* the effect's cleanup when the component unmounts: cleanCache(currCacheKey, true)
DetachConsumer(c) ==
  /\ consumer[c].phase = "attached"
  /\ consumer' = [consumer EXCEPT ![c] = NoConsumer]
  /\ promiseCache' = cleanCache(promiseCache, trackers, currCacheKey(consumer[c].attached), TRUE)
  /\ UNCHANGED <<config, chan, timers, wsVars, disposed, coreVars, history, listenerVars,
                 fnVars, customVars, trackers, now, sweeps>>

\* a component whose render did not commit is discarded: the effect of that
\* render never ran; the cleanup of an effect in place from an earlier commit
\* runs
AbandonConsumer(c) ==
  /\ consumer[c].phase \in {"suspended", "failed", "rendered", "threw"}
  /\ consumer' = [consumer EXCEPT ![c] = NoConsumer]
  /\ promiseCache' = IF consumer[c].attached = NoCall
                     THEN promiseCache
                     ELSE cleanCache(promiseCache, trackers,
                                     currCacheKey(consumer[c].attached), TRUE)
  /\ UNCHANGED <<config, chan, timers, wsVars, disposed, coreVars, history, listenerVars,
                 fnVars, customVars, trackers, now, sweeps>>

\* a promise that could settle again
SettlePromise_Resettles(i, outcome) ==
  /\ trackers[i].status # outcome
  /\ trackers' = [trackers EXCEPT ![i].status = outcome]
  /\ UNCHANGED <<config, chan, timers, wsVars, disposed, coreVars, history, listenerVars,
                 fnVars, customVars, promiseCache, consumer, now, sweeps>>

\* the RPC behind a promise settles; prom.then / prom.catch record it
SettlePromise(i, outcome) ==
  /\ trackers[i].status = "pending"
  /\ trackers' = [trackers EXCEPT ![i].status = outcome]
  /\ UNCHANGED <<config, chan, timers, wsVars, disposed, coreVars, history, listenerVars,
                 fnVars, customVars, promiseCache, consumer, now, sweeps>>

\* time passes, by a millisecond or by the staleness threshold
ClockSteps == {1, STALE_PROMISE_MS}

\* number of steps the clock has made
ticks == (now \div STALE_PROMISE_MS) + (now % STALE_PROMISE_MS)

Tick(d) ==
  /\ ticks < MaxTicks
  /\ now' = now + d
  /\ UNCHANGED <<config, chan, timers, wsVars, disposed, coreVars, history, listenerVars,
                 fnVars, customVars, promiseCache, trackers, consumer, sweeps>>

\* the setInterval callback
Sweep ==
  /\ sweeps < MaxSweeps
  /\ sweeps' = sweeps + 1
  /\ promiseCache' = cleanStalePromises(promiseCache, trackers, now)
  /\ UNCHANGED <<config, chan, timers, wsVars, disposed, coreVars, history, listenerVars,
                 fnVars, customVars, trackers, consumer, now>>

\* the provider the components that use the cache are rendered below
cacheProvider == CHOOSE p \in Providers : TRUE

\* the hooks of one hook set used below its provider, on a quiet connection
\* and before any entry can be stale (the clock stands, so a sweep removes
\* nothing)
CacheNext ==
  \/ Mount(cacheProvider)
  \/ \E c \in Consumers, call \in Calls : RenderConsumer(c, call)
  \/ \E c \in Consumers : CommitConsumer(c)
  \/ \E c \in Consumers : DetachConsumer(c)
  \/ \E c \in Consumers : AbandonConsumer(c)
  \/ \E i \in 1..Len(trackers), outcome \in {"resolved", "rejected"} : SettlePromise(i, outcome)

CacheInit == Init /\ retries = 0 /\ backoffStrategy = "default"

CacheSpec == CacheInit /\ [][CacheNext]_vars

\* ------------------------------------ a call function that throws at once
\* calls whose function throws before it returns a promise
SyncThrowCalls == {Rpc("boom", <<>>)}

\* a component renders such a call: `Promise.resolve(fn(api))` evaluates
\* fn(api) first, the exception leaves useNamedPromise before the tracker is
\* made and before promiseCache.set
RenderThrowing(c, call) ==
  /\ \/ consumer[c].phase = "unmounted"
     \/ consumer[c].phase = "threw" /\ consumer[c].call = call
  /\ \E p \in Providers : useCapnWebApi(p) # Null
  /\ ~cacheHit(promiseCache, trackers, currCacheKey(call))
  /\ consumer' = [consumer EXCEPT ![c] = [phase |-> "threw",
                                          call |-> call,
                                          promise |-> Null,
                                          attached |-> NoCall]]
  /\ UNCHANGED <<config, chan, timers, wsVars, disposed, coreVars, history, listenerVars,
                 fnVars, customVars, promiseCache, trackers, now, sweeps>>

FactoryThrowNext ==
  \/ Mount(cacheProvider)
  \/ \E c \in Consumers, call \in Calls : RenderConsumer(c, call)
  \/ \E c \in Consumers, call \in SyncThrowCalls : RenderThrowing(c, call)
  \/ \E c \in Consumers : CommitConsumer(c)
  \/ \E c \in Consumers : DetachConsumer(c)
  \/ \E c \in Consumers : AbandonConsumer(c)
  \/ \E i \in 1..Len(trackers), outcome \in {"resolved", "rejected"} : SettlePromise(i, outcome)

FactoryThrowSpec == CacheInit /\ [][FactoryThrowNext]_vars

\* ------------------------------------ the cache across a session swap
\* components use the cache while the connection is lost and replaced: one
\* retry, one strategy
SwapInit == Init /\ retries = 1 /\ backoffStrategy = "fixed"

SwapNext ==
  \/ \E c \in DOMAIN chan : ChannelOpen(c)
  \/ \E c \in DOMAIN chan : ChannelClose(c)
  \/ \E t \in timers : ReconnectTimerFire(t)
  \/ Mount(cacheProvider)
  \/ \E c \in Consumers, call \in Calls : RenderConsumer(c, call)
  \/ \E i \in 1..Len(trackers), outcome \in {"resolved", "rejected"} : SettlePromise(i, outcome)

SwapSpec == SwapInit /\ [][SwapNext]_vars

\* ------------------------- the lifecycle wrapper with a cleanup that throws
\* createCapnWebHooksWithLifecycle(sessionFactory, onClose) on its own: onClose
\* and the session's Symbol.dispose may throw (`throwing`), and the session
\* may have no Symbol.dispose
LifecycleInit ==
  /\ ManagerInitFor(SUBSET {"onClose", "Symbol.dispose"}, {"default"})
  /\ retries = 0
  /\ NoListeners
  /\ NoBackoffCall
  /\ EmptyCache
  /\ transportKind = "none"
  /\ supportsAbort = FALSE
  /\ sessionDisposable \in BOOLEAN
  /\ currentTransport = Null
  /\ rpcSession = Null
  /\ transportLog = <<>>

closeSteps_Uncaught(sess, disposable, listeners, throws) ==
  <<Call("onClose", Null)>>
    \o (IF "onClose" \in throws THEN <<>>
        ELSE (IF sess # Null /\ disposable THEN <<Call("Symbol.dispose", sess)>> ELSE <<>>)
               \o (IF sess # Null /\ disposable /\ "Symbol.dispose" \in throws THEN <<>>
                   ELSE <<Call("notifyListeners", listeners)>>))

\* what close() calls after setting isClosed: onClose in try/catch, then
\* disposeSession(session) (Symbol.dispose in try/catch when the session has
\* it), then notifyListeners(); an exception is logged and goes no further
closeSteps(sess, disposable, listeners, throws) ==
  <<Call("onClose", Null)>>
    \o (IF sess # Null /\ disposable THEN <<Call("Symbol.dispose", sess)>> ELSE <<>>)
    \o <<Call("notifyListeners", listeners)>>

LifecycleClose ==
  /\ closeCalls < MaxCloseCalls
  /\ closeCalls' = closeCalls + 1
  /\ IF isClosed
     THEN UNCHANGED <<isClosed, calls, provider>>
     ELSE /\ isClosed' = TRUE
          /\ calls' = calls \o closeSteps(coreSession, sessionDisposable,
                                          Cardinality({p \in Providers : provider[p].mounted}),
                                          throwing)
          \* notifyListeners(): setCurrentSession(session) in every mounted provider
          /\ provider' = [p \in Providers |->
                            IF provider[p].mounted
                            THEN [provider[p] EXCEPT !.currentSession = coreSession]
                            ELSE provider[p]]
  /\ UNCHANGED <<config, chan, timers, wsVars, disposed, coreSession, factoryCalls, published,
                 scheduled, evaluated, listenerVars, libVars>>

LifecycleNext ==
  \/ \E p \in Providers : Mount(p)
  \/ \E p \in Providers : Unmount(p)
  \/ LifecycleClose

LifecycleSpec == LifecycleInit /\ [][LifecycleNext]_vars

\* ------------------------------------------ named queries and method calls
\* what the components render: named queries next to method calls, one of
\* them a method whose name begins with an exclamation mark
QueryCalls ==
  { Query("x", <<JsNumber(1)>>),
    Query("y", <<>>),
    Rpc("x", <<JsNumber(1)>>),
    Rpc("!x", <<JsNumber(1)>>) }

QueryNext ==
  \/ Mount(cacheProvider)
  \/ \E c \in Consumers, call \in QueryCalls : RenderConsumer(c, call)
  \/ \E c \in Consumers : CommitConsumer(c)
  \/ \E c \in Consumers : DetachConsumer(c)
  \/ \E c \in Consumers : AbandonConsumer(c)
  \/ \E i \in 1..Len(trackers), outcome \in {"resolved", "rejected"} : SettlePromise(i, outcome)

QuerySpec == CacheInit /\ [][QueryNext]_vars

\* the cache as time passes: components render, promises settle, the clock
\* advances and the interval callback runs
SweepNext ==
  \/ Mount(cacheProvider)
  \/ \E c \in Consumers, call \in Calls : RenderConsumer(c, call)
  \/ \E i \in 1..Len(trackers), outcome \in {"resolved", "rejected"} : SettlePromise(i, outcome)
  \/ \E d \in ClockSteps : Tick(d)
  \/ Sweep

SweepSpec == CacheInit /\ [][SweepNext]_vars

\* ------------------------------------------------ initCapnCustomTransport
Event(op, id) == [op |-> op, id |-> id]

onCloseEvents_DisposeFirst(t, abortable, sess, disposable) ==
  (IF sess # Null /\ disposable THEN <<Event("dispose", sess)>> ELSE <<>>)
    \o (IF t # Null /\ abortable THEN <<Event("abort", t)>> ELSE <<>>)

\* what onClose calls: abort on the transport if it has one, then
\* Symbol.dispose on the RpcSession if it has one
onCloseEvents(t, abortable, sess, disposable) ==
  (IF t # Null /\ abortable THEN <<Event("abort", t)>> ELSE <<>>)
    \o (IF sess # Null /\ disposable THEN <<Event("dispose", sess)>> ELSE <<>>)

\* the transports obtained so far
transportsMade == {i \in 1..Len(transportLog) : transportLog[i].op = "create"}

\* State right after initCapnCustomTransport(transport, options) returned
CustomInit ==
  /\ ManagerInit({{}})
  /\ retries = 0
  /\ backoffStrategy = "default"
  /\ NoListeners
  /\ NoBackoffCall
  /\ EmptyCache
  /\ transportKind \in {"object", "factory"}
  /\ supportsAbort \in BOOLEAN
  /\ sessionDisposable \in BOOLEAN
  /\ currentTransport = Null
  /\ rpcSession = Null
  /\ transportLog = <<>>

\* a CapnWebProvider of the custom transport mounts; when the wrapper has no
\* session it runs sessionFactory, in which a transport factory may throw
CustomMount(p, outcome) ==
  /\ ~provider[p].mounted
  /\ IF needsSession(coreSession, isClosed)
     THEN /\ factoryCalls < MaxFactoryCalls
          /\ factoryCalls' = factoryCalls + 1
          /\ IF outcome = "throws"
             THEN /\ transportKind = "factory"
                  /\ transportLog' = Append(transportLog, Event("onError", Null))
                  /\ UNCHANGED <<currentTransport, rpcSession, coreSession, provider>>
             ELSE LET t == Cardinality(transportsMade) + 1
                  IN /\ currentTransport' = t
                     /\ rpcSession' = t
                     /\ coreSession' = t
                     /\ transportLog' = Append(transportLog, Event("create", t))
                     /\ provider' = [provider EXCEPT
                                       ![p] = [mounted |-> TRUE, currentSession |-> t]]
     ELSE /\ outcome = "returns"
          /\ provider' = [provider EXCEPT
                            ![p] = [mounted |-> TRUE, currentSession |-> coreSession]]
          /\ UNCHANGED <<currentTransport, rpcSession, coreSession, factoryCalls, transportLog>>
  /\ UNCHANGED <<config, chan, timers, wsVars, disposed, isClosed, history, listenerVars,
                 fnVars, cacheVars, transportKind, supportsAbort, sessionDisposable>>

\* the exposed close() of the custom transport: the wrapper's close() with the
\* custom onClose, then disposal of the wrapper's session (the remote main stub)
CustomClose ==
  /\ closeCalls < MaxCloseCalls
  /\ closeCalls' = closeCalls + 1
  /\ IF isClosed
     THEN UNCHANGED <<isClosed, currentTransport, rpcSession, transportLog, provider>>
     ELSE /\ isClosed' = TRUE
          /\ transportLog' = transportLog
                \o onCloseEvents(currentTransport, supportsAbort, rpcSession, sessionDisposable)
                \o (IF coreSession # Null THEN <<Event("disposeStub", coreSession)>> ELSE <<>>)
          /\ currentTransport' = Null
          /\ rpcSession' = Null
          \* notifyListeners()
          /\ provider' = [p \in Providers |->
                            IF provider[p].mounted
                            THEN [provider[p] EXCEPT !.currentSession = coreSession]
                            ELSE provider[p]]
  /\ UNCHANGED <<config, chan, timers, wsVars, disposed, coreSession, factoryCalls, published,
                 calls, scheduled, evaluated, listenerVars, fnVars, cacheVars, transportKind,
                 supportsAbort, sessionDisposable>>

CustomNext ==
  \/ \E p \in Providers, outcome \in {"returns", "throws"} : CustomMount(p, outcome)
  \/ \E p \in Providers : Unmount(p)
  \/ CustomClose

CustomSpec == CustomInit /\ [][CustomNext]_vars

\* =================================================================== claims
status == connectionState.status

\* no timer is armed and every channel has delivered its close signal
Quiescent == timers = {} /\ \A c \in DOMAIN chan : chan[c] = "closed"

\* C1: while no channel has ever opened and close() was not called, at most
\* `retries` reconnect timers have been armed, the N-th one for attempt N, and
\* a pending N-th timer was armed with a delay that backoffStrategy(N) returns;
\* the state is Disconnected{"Max retries reached"} exactly when
\* onReconnectFailed has been invoked (once), which happens after exactly
\* `retries` timers were armed, and that is where such a run comes to rest.
C1_RetriesThenFail ==
  (opens = 0 /\ ~isClosed) =>
    /\ Len(scheduled) <= retries
    /\ \A n \in 1..Len(scheduled) : scheduled[n] = n
    /\ \A t \in timers :
         t.kind = "reconnect" =>
           /\ t.id = Len(scheduled)
           /\ t.delay \in BackoffResults(backoffStrategy, t.id)
    /\ NumCalls("onReconnectFailed") <= 1
    /\ (connectionState = DisconnectedMax <=> NumCalls("onReconnectFailed") = 1)
    /\ (connectionState = DisconnectedMax => Len(scheduled) = retries)
    /\ (Quiescent => connectionState = DisconnectedMax)

C1_Witness ==
  /\ opens = 0 /\ ~isClosed
  /\ retries = MaxRetries
  /\ Len(scheduled) = retries
  /\ connectionState = DisconnectedMax
  /\ NumCalls("onReconnectFailed") = 1

\* C2: once the connection state is Closed it is Closed after every further
\* step (channel signal, timer callback, close() call, mount, unmount).
C2_ClosedIsTerminal == [][status = "closed" => connectionState' = Closed]_vars

\* close() was called on a live channel, whose close signal arrived afterwards,
\* and close() was called a second time
C2_Witness ==
  /\ connectionState = Closed
  /\ Len(published) >= 2
  /\ published[Len(published) - 1].status \in {"connecting", "connected"}
  /\ \A c \in DOMAIN chan : chan[c] = "closed"
  /\ closeCalls = 2

\* C3: after close() no timer is armed (so none fires), both timer handles are
\* cleared, the state is Closed, and no step opens a new channel or arms a timer.
C3_CloseStopsReconnect ==
  /\ [](isClosed => /\ timers = {}
                    /\ reconnectTimeout = NoTimer
                    /\ connectionTimeout = NoTimer
                    /\ connectionState = Closed)
  /\ [][isClosed => (DOMAIN chan' = DOMAIN chan /\ timers' = {})]_vars

\* close() was called while a retry timer was pending (state Reconnecting)
C3_Witness ==
  /\ isClosed
  /\ Len(published) >= 2
  /\ published[Len(published) - 1].status = "reconnecting"

\* number of replacement sessions created by the reconnect timer so far
reconnects == Cardinality(DOMAIN chan) - 1

\* C4: while close() has not been called, a consumer below a mounted provider
\* that reads the call surface through the exposed stub accessor gets the
\* manager's current session, also after any number of reconnects.
C4_StableHandle ==
  \A p \in Providers :
    (provider[p].mounted /\ ~isClosed) => useCapnWebApi(p) = session

C6_CloseIdempotent ==
  /\ closedTransitions <= 1
  /\ \A s \in DOMAIN disposed : disposed[s] <= 1

\* consecutive pairs of published states
Steps == 1..(Len(published) - 1)

AllowedListed(a, b) ==
  \/ a.status = "connecting" /\ b = Connected
  \/ a = Connected /\ b = Disconnected
  \/ a = Disconnected /\ b.status = "reconnecting"
  \/ a.status = "reconnecting" /\ b.status = "connecting"
  \/ a = Disconnected /\ b = DisconnectedMax
  \/ b = Closed

\* C7 as stated: every pair of consecutive published states is one of
\* Connecting -> Connected, Connected -> Disconnected, Disconnected ->
\* Reconnecting, Reconnecting -> Connecting, Disconnected -> Disconnected
\* (retries exhausted), any -> Closed.
C7_ListedTransitionsOnly ==
  \A i \in Steps : AllowedListed(published[i], published[i + 1])

\* C7 amended: every pair of consecutive published states is one of the listed
\* transitions or Connecting -> Disconnected (an attempt that fails before the
\* channel opens), and Closed is published only by an explicit close().
C7_Transitions ==
  /\ \A i \in Steps :
       \/ AllowedListed(published[i], published[i + 1])
       \/ published[i].status = "connecting" /\ published[i + 1] = Disconnected
  /\ closedTransitions >= 1 => closeCalls >= 1 /\ isClosed

\* a failed first attempt, a retry, and a close() at the end
C7_Witness ==
  /\ \E i \in Steps : published[i].status = "connecting" /\ published[i + 1] = Disconnected
  /\ \E i \in Steps : published[i].status = "reconnecting" /\ published[i + 1].status = "connecting"
  /\ connectionState = Closed

\* the run connected at once and never opened a channel again, retries are
\* exhausted and close() was not called
RetriesExhaustedAfterConnect ==
  /\ Len(published) >= 2 /\ published[2] = Connected
  /\ opens = 1
  /\ ~isClosed
  /\ connectionState = DisconnectedMax

\* C8 as stated: such a run (with retries >= 1) took `retries` channel-close
\* events.
C8_ExhaustedAfterRCloses ==
  (RetriesExhaustedAfterConnect /\ retries >= 1) => handledCloses = retries

\* C8 amended: such a run took retries + 1 channel-close events (the close of
\* the connected channel and of each retry channel); its published states are
\* Connecting(0), Connected, then Disconnected, Reconnecting(k), Connecting(k)
\* for k = 1..retries, then Disconnected, Disconnected{"Max retries reached"},
\* and onReconnectFailed was called once.
C8_ExhaustionScenario ==
  RetriesExhaustedAfterConnect =>
    /\ handledCloses = retries + 1
    /\ Len(published) = 2 + 3 * retries + 2
    /\ published[1] = Connecting(0)
    /\ \A k \in 1..retries :
         /\ published[3 * k] = Disconnected
         /\ published[3 * k + 1].status = "reconnecting"
         /\ published[3 * k + 1].attempt = k
         /\ published[3 * k + 2] = Connecting(k)
    /\ published[3 * retries + 3] = Disconnected
    /\ published[3 * retries + 4] = DisconnectedMax
    /\ NumCalls("onReconnectFailed") = 1

C8_Witness == RetriesExhaustedAfterConnect /\ retries = MaxRetries

\* indices of a Connected state that is followed by a failure
FailuresAfterConnect == {i \in Steps : published[i] = Connected /\ published[i + 1] = Disconnected}

\* the last Connected published, 0 if none
LastConnected ==
  LET S == {i \in 1..Len(published) : published[i] = Connected}
  IN IF S = {} THEN 0 ELSE CHOOSE i \in S : \A j \in S : j <= i

RetriesSinceConnect ==
  Cardinality({i \in 1..Len(published) :
                 i > LastConnected /\ published[i].status = "reconnecting"})

\* C9 as stated: the retry counter is 0 whenever the state is Connected, it
\* counts the retries scheduled since the last open, and the first failure
\* after a successful connection publishes Reconnecting{attempt: 1}.
C9_FirstFailureReconnects1 ==
  /\ status = "connected" => retryCount = 0
  /\ retryCount = RetriesSinceConnect
  /\ \A i \in FailuresAfterConnect :
       /\ i + 2 <= Len(published)
       /\ published[i + 2].status = "reconnecting"
       /\ published[i + 2].attempt = 1

\* C9 amended: as stated, for retries >= 1 (with retries = 0 the first failure
\* publishes Disconnected{"Max retries reached"} and no Reconnecting).
C9_RetryCounter ==
  /\ status = "connected" => retryCount = 0
  /\ retryCount = RetriesSinceConnect
  /\ \A i \in FailuresAfterConnect :
       /\ i + 2 <= Len(published)
       /\ retries >= 1 => published[i + 2].status = "reconnecting" /\ published[i + 2].attempt = 1
       /\ retries = 0 => published[i + 2] = DisconnectedMax

\* a connection that succeeded on a retry (counter not 0 before) and then failed
C9_Witness ==
  \E i \in FailuresAfterConnect :
    /\ published[i - 1].status = "connecting"
    /\ published[i - 1].attempt >= 1
    /\ published[i + 2].status = "reconnecting"

\* a step in which a connecting channel is force-closed although close() was
\* not called: the connect-timeout callback
TimeoutForcesClose ==
  /\ ~isClosed'
  /\ \E c \in DOMAIN chan : chan[c] = "connecting" /\ chan'[c] = "closing"

\* a step in which some channel delivers its close signal
CloseSignal == \E c \in DOMAIN chan : chan[c] # "closed" /\ chan'[c] = "closed"

\* C10: with timers that fire and channels that deliver the close signal after
\* an error or a forced close, every Connecting state is left (for Connected,
\* for the failure path, or by close()); the connect-timeout callback only
\* force-closes the channel and clears its handle, changing neither the state
\* nor the retry counter nor any reconnect timer; a retry is scheduled only in
\* a step that delivers a close signal.
C10_ConnectTimeoutBounds ==
  /\ (status = "connecting") ~> (status \in {"connected", "reconnecting", "disconnected", "closed"})
  /\ [][TimeoutForcesClose =>
          /\ connectionTimeout' = NoTimer
          /\ UNCHANGED <<connectionState, retryCount, reconnectTimeout, isReconnecting,
                         published, calls, scheduled, session, currentWs>>
          /\ DOMAIN chan' = DOMAIN chan]_vars
  /\ [][scheduled' # scheduled => CloseSignal]_vars

\* the connect-timeout has fired on a channel that never opened: the channel is
\* closing, the state is still Connecting and no timer is armed
C10_Witness ==
  /\ status = "connecting"
  /\ ~isClosed
  /\ currentWs # Null /\ chan[currentWs] = "closing"
  /\ timers = {}

\* C11: a pending retry is carried out without any user action (the state
\* leaves Reconnecting for Connecting on a new channel, unless close() is
\* called); and whenever a channel opens, the state becomes Connected, the retry
\* counter is 0, and the current session is the not yet disposed session bound
\* to that channel, which is the current and most recently created channel.
C11_AutomaticReconnection ==
  /\ (status = "reconnecting") ~> (status = "connecting" \/ status = "closed")
  /\ [][\A c \in DOMAIN chan :
          (chan[c] = "connecting" /\ chan'[c] = "open") =>
             /\ connectionState' = Connected
             /\ retryCount' = 0
             /\ session' = c /\ currentWs' = c
             /\ c = Cardinality(DOMAIN chan) - 1
             /\ disposed'[c] = 0]_vars

\* connected, lost the channel, and connected again on a replacement channel
C11_Witness ==
  /\ status = "connected"
  /\ opens = 2
  /\ ~isClosed
  /\ retryCount = 0
  /\ session >= 1 /\ chan[session] = "open"

\* C12: whichever callback throws, every handled close completes its transition
\* logic: a published Disconnected is followed by Reconnecting or by
\* Disconnected{"Max retries reached"}, and in state Reconnecting (close() not
\* called) the reconnect timer is armed.
C12_CallbackThrowIsolated ==
  /\ \A i \in 1..Len(published) :
       published[i] = Disconnected =>
         /\ i + 1 <= Len(published)
         /\ published[i + 1].status = "reconnecting" \/ published[i + 1] = DisconnectedMax
  /\ status = "reconnecting" => reconnectTimeout # NoTimer /\ reconnectTimeout \in timers

\* number of channels that have delivered their close signal
closedChannels == Cardinality({c \in DOMAIN chan : chan[c] = "closed"})

\* positions of the onReconnecting calls in the callback log
ReconnectingCalls == {i \in 1..Len(calls) : calls[i].name = "onReconnecting"}

\* C13: onConnected has been invoked once per channel open; onDisconnected once
\* per handled close signal (every close signal while close() was not called);
\* each onDisconnected is directly followed by exactly one of onReconnecting or
\* onReconnectFailed, which occur nowhere else; onReconnecting is invoked once
\* per retry scheduled, with the new retry count, and onReconnectFailed once per
\* exhaustion.
C13_CallbacksOncePerEvent ==
  /\ NumCalls("onConnected") = opens
  /\ NumCalls("onDisconnected") = handledCloses
  /\ NumCalls("onDisconnected") <= closedChannels
  /\ ~isClosed => NumCalls("onDisconnected") = closedChannels
  /\ \A i \in 1..Len(calls) :
       /\ calls[i].name = "onDisconnected" =>
            /\ i + 1 <= Len(calls)
            /\ calls[i + 1].name \in {"onReconnecting", "onReconnectFailed"}
       /\ calls[i].name \in {"onReconnecting", "onReconnectFailed"} =>
            i > 1 /\ calls[i - 1].name = "onDisconnected"
  /\ NumCalls("onReconnecting") = Len(scheduled)
  /\ \A i \in ReconnectingCalls :
       calls[i].arg = scheduled[Cardinality({j \in ReconnectingCalls : j <= i})]
  /\ status = "reconnecting" => calls[Len(calls)] = Call("onReconnecting", retryCount)
  /\ NumCalls("onReconnectFailed") =
       Cardinality({i \in 1..Len(published) : published[i] = DisconnectedMax})

\* a run with an open, retries, and exhaustion
C13_Witness ==
  /\ NumCalls("onConnected") >= 1
  /\ NumCalls("onReconnecting") >= 2
  /\ NumCalls("onReconnectFailed") = 1

\* the notifications a registered listener must have received: the state
\* current at registration, then everything handed to setConnectionState since
Suffix(seq, n) == SubSeq(seq, Len(seq) - n + 1, Len(seq))

\* C14: a registered subscriber has received the state that was current at its
\* registration followed by exactly the states handed to setConnectionState
\* since, one notification each and in the order of the calls, and the state
\* its hook holds is the current connection state.
C14_OrderedCompleteObservation ==
  \A s \in stateListeners :
    /\ hookState[s].phase = "subscribed"
    /\ Len(hookState[s].observed) >= 1
    /\ Len(hookState[s].observed) <= Len(published)
    /\ hookState[s].observed = Suffix(published, Len(hookState[s].observed))
    /\ hookState[s].state = connectionState

\* a subscriber registered while Connecting that was then notified of Connected,
\* Disconnected and the state after it: three notifications after the replay
C14_Witness ==
  \E s \in stateListeners :
    /\ Len(hookState[s].observed) >= 4
    /\ hookState[s].observed[1].status = "connecting"
    /\ hookState[s].observed[2] = Connected
    /\ hookState[s].observed[3] = Disconnected

\* C15: the delay returned for attempt n >= 1 is at least the base (1000
\* doubled n - 1 times, at most 30000) and less than the base plus 1000: in
\* [1000, 2000) for n = 1 and in [30000, 31000) for every n >= 6.
C15_DefaultBackoffRange ==
  backoffResult # Null =>
    LET n == backoffArg
        base == IF n <= 5 THEN 1000 * 2^(n - 1) ELSE 30000
    IN /\ base <= backoffResult /\ backoffResult < base + 1000
       /\ n = 1 => 1000 <= backoffResult /\ backoffResult < 2000
       /\ n >= 6 => 30000 <= backoffResult /\ backoffResult < 31000
       /\ backoffResult < 31000

\* a capped delay with the largest jitter
C15_Witness == backoffArg >= 7 /\ backoffResult = 30999

\* a step in which component c looked its key up (rendered useCapnWeb)
LookedUp(c) ==
  /\ consumer'[c] # consumer[c]
  /\ consumer[c].phase \in {"unmounted", "suspended", "failed", "attached"}
  /\ consumer'[c].phase \in {"suspended", "failed", "rendered"}

\* C16: a lookup of a key that has an entry in the cache returns the promise of
\* that entry, invokes no factory (creates no promise) and leaves the cache as
\* it is; so two components that look the same key up while its entry exists
\* wait for one and the same call.
C16_CacheDeduplicates ==
  [][\A c \in Consumers :
       (LookedUp(c) /\ useCapnWebKey(consumer'[c].call) \in DOMAIN promiseCache) =>
          /\ consumer'[c].promise = promiseCache[useCapnWebKey(consumer'[c].call)]
          /\ trackers' = trackers
          /\ promiseCache' = promiseCache]_vars

\* two components suspended on the same pending promise after one factory call,
\* and a later lookup that hit the settled entry
C16_Witness ==
  /\ Len(trackers) = 1
  /\ trackers[1].status = "resolved"
  /\ consumer[1].promise = 1 /\ consumer[1].phase = "rendered"
  /\ consumer[2].promise = 1 /\ consumer[2].phase = "suspended"

\* C17: no two different calls collide: the promise a component was handed for
\* its call (method name and argument sequence) was created by the factory of
\* that very call, so two components share a promise only if they made the same
\* call.
C17_KeyInjective ==
  /\ \A c \in Consumers :
       consumer[c].promise # Null => trackers[consumer[c].promise].call = consumer[c].call
  /\ \A c1, c2 \in Consumers :
       (consumer[c1].promise # Null /\ consumer[c1].promise = consumer[c2].promise) =>
          consumer[c1].call = consumer[c2].call

\* a step in which a provider mounted or unmounted
ProviderStep == \E p \in Providers : provider'[p].mounted # provider[p].mounted

\* a step in which the program called close() on a channel's WebSocket
ForcedClose(c) == chan[c] # "closing" /\ chan'[c] = "closing"

\* C18: a provider mount or unmount changes neither the connection state, the
\* current channel, the retry counter, the two timers nor any channel; and the
\* program closes a channel only when the connect-timeout of that channel fires
\* or in close() (otherwise a channel closes by its own failure).
C18_MountUnmountFrame ==
  /\ [][ProviderStep =>
          UNCHANGED <<connectionState, currentWs, retryCount, reconnectTimeout,
                      connectionTimeout, timers, chan, isReconnecting, session>>]_vars
  /\ [][\A c \in DOMAIN chan :
          ForcedClose(c) =>
             \/ ConnectTimer(c) \in timers /\ ConnectTimer(c) \notin timers'
             \/ closeCalls' = closeCalls + 1 /\ ~isClosed /\ isClosed']_vars

\* a provider has mounted and unmounted again and the channel is still open
C18_Witness ==
  /\ factoryCalls = 1
  /\ \A p \in Providers : ~provider[p].mounted
  /\ status = "connected"
  /\ currentWs # Null /\ chan[currentWs] = "open"

\* C19: as long as no provider has mounted (the wrapper holds no session and
\* close() was not called) no channel has been created; and the channels
\* created are one initial channel plus one per reconnect attempt, however many
\* providers mount.
C19_CreatedOnFirstMount ==
  /\ (coreSession = Null /\ ~isClosed) => DOMAIN chan = {}
  /\ Cardinality(DOMAIN chan) =
       Cardinality({i \in 1..Len(published) : published[i].status = "connecting"})
  /\ Cardinality(DOMAIN chan) <= 1 + Len(scheduled)

\* C20: the wrapper has invoked the session factory at most once; no step
\* invokes it after close(); and once closed with no session created, the
\* wrapper never gets a session and every mounted provider provides none.
C20_FactoryAtMostOnce ==
  /\ [](factoryCalls <= 1)
  /\ [][factoryCalls' # factoryCalls => ~isClosed /\ ~isClosed']_vars
  /\ []((isClosed /\ factoryCalls = 0) =>
          /\ coreSession = Null
          /\ \A p \in Providers : useCapnWebApi(p) = Null)

\* C20 (as amended): the session factory is invoked only while the wrapper
\* holds no session and close() has not been called, and it returns a session
\* at most once (a factory that throws is invoked again at the next mount); it
\* is never invoked after close(), and once closed with no session created the
\* wrapper never gets one and every mounted provider provides none.
C20_FactoryOncePerSession ==
  /\ [](Cardinality(transportsMade) <= 1)
  /\ [][factoryCalls' # factoryCalls =>
          /\ coreSession = Null
          /\ ~isClosed /\ ~isClosed'
          /\ factoryCalls' = factoryCalls + 1]_vars
  /\ [][coreSession # Null => coreSession' = coreSession]_vars
  /\ []((isClosed /\ coreSession = Null) => \A p \in Providers : useCapnWebApi(p) = Null)
  /\ [][(isClosed /\ coreSession = Null) => coreSession' = Null]_vars

\* the factory threw at the first mount and returned a session at the second
C20_Witness ==
  /\ factoryCalls = 2
  /\ coreSession # Null
  /\ \E p \in Providers : provider[p].mounted

\* positions in the transport log of the events of one kind
LogPositions(op) == {i \in 1..Len(transportLog) : transportLog[i].op = op}

liveSessions == {s \in DOMAIN disposed : disposed[s] = 0}

\* C22: a step that replaces the current session leaves the replaced session
\* disposed, and at no time do two sessions exist that were not disposed.
C22_OldSessionDisposed ==
  /\ [](Cardinality(liveSessions) <= 1)
  /\ [][session' # session => disposed'[session] >= 1 /\ disposed'[session'] = 0]_vars

\* a reconnect has replaced the first session, and the replacement is in use
C22_Witness ==
  /\ session >= 1
  /\ disposed[0] >= 1
  /\ disposed[session] = 0
  /\ connectionState = Connected

\* reconnect timers that are armed
pendingReconnects == {t \in timers : t.kind = "reconnect"}

\* the close listener of some channel runs in this step
CloseSignalStep ==
  \E c \in DOMAIN chan : chan'[c] # chan[c] /\ chan'[c] \in {"closed", "closedTwice"}

\* C23: at most one reconnect timer is armed at any time, and a close signal
\* handled while a retry is scheduled schedules nothing, publishes nothing,
\* calls no callback and creates no channel.
C23_OneReconnectTimer ==
  /\ [](Cardinality(pendingReconnects) <= 1)
  /\ [][isReconnecting /\ CloseSignalStep =>
          /\ UNCHANGED <<timers, retryCount, reconnectTimeout, isReconnecting,
                         connectionState, session, history>>
          /\ DOMAIN chan' = DOMAIN chan]_vars

\* a channel repeated its close signal while the retry it caused was scheduled
C23_Witness ==
  /\ \E c \in DOMAIN chan : chan[c] = "closedTwice"
  /\ isReconnecting
  /\ Cardinality(pendingReconnects) = 1
  /\ handledCloses = 1
  /\ Len(scheduled) = 1

\* channels that have delivered a close signal
failedChannels == {c \in DOMAIN chan : chan[c] \in {"closed", "closedTwice"}}

\* the close listener of a channel runs for the second time in this step
DuplicateSignalStep ==
  \E c \in DOMAIN chan : chan[c] = "closed" /\ chan'[c] = "closedTwice"

\* C24: the failure path is entered at most once per failed channel (one
\* Disconnected transition, one retry scheduled, one onDisconnected call for
\* each), and a close signal that a channel delivers for the second time
\* changes nothing.
C24_FailureEntryIdempotent ==
  /\ [](/\ handledCloses <= Cardinality(failedChannels)
        /\ NumCalls("onDisconnected") <= Cardinality(failedChannels)
        /\ Len(scheduled) <= Cardinality(failedChannels))
  /\ [][DuplicateSignalStep =>
          UNCHANGED <<timers, wsVars, disposed, history>>]_vars

\* the connect-timeout callback of channel c runs in this step
ConnectTimeoutFires(c) ==
  /\ ConnectTimer(c) \in timers \ timers'
  /\ chan[c] # "closing" /\ chan'[c] = "closing"
  /\ closeCalls' = closeCalls

\* the reconnect timer callback runs in this step: it creates a channel
ReconnectTimerFires == DOMAIN chan' # DOMAIN chan

\* C25: an armed connect-timeout belongs to the current channel, which is
\* still connecting in state Connecting, and an armed reconnect timer is the
\* scheduled retry of state Reconnecting; so the connect-timeout force-closes
\* only the current, never opened channel, and the reconnect timer fires only in
\* state Reconnecting.
C25_TimersNeverStale ==
  /\ [](\A t \in timers :
          /\ t.kind = "connect" =>
               /\ t = connectionTimeout
               /\ t.id = currentWs
               /\ chan[t.id] = "connecting"
               /\ status = "connecting"
          /\ t.kind = "reconnect" =>
               /\ t = reconnectTimeout
               /\ status = "reconnecting")
  /\ [][/\ \A c \in DOMAIN chan :
             ConnectTimeoutFires(c) =>
               c = currentWs /\ chan[c] = "connecting" /\ status = "connecting"
        /\ ReconnectTimerFires => status = "reconnecting"]_vars

\* after a reconnect, the connect-timeout of the replacement channel has fired
C25_Witness ==
  /\ currentWs >= 1
  /\ chan[currentWs] = "closing"
  /\ status = "connecting"
  /\ timers = {}
  /\ closeCalls = 0

\* C26: in state Disconnected{"Max retries reached"} no timer is armed and
\* every channel has delivered its close signal; from there no channel is
\* created and nothing is published until close(), and close() moves the state
\* to Closed.
C26_ExhaustionStable ==
  /\ [](connectionState = DisconnectedMax => Quiescent)
  /\ [][connectionState = DisconnectedMax =>
          /\ DOMAIN chan' = DOMAIN chan
          /\ IF closeCalls' = closeCalls
             THEN UNCHANGED <<connectionState, published, calls, timers, retryCount>>
             ELSE connectionState' = Closed /\ published' = Append(published, Closed)]_vars

\* close() was called after the retries were used up
C26_Witness ==
  /\ connectionState = Closed
  /\ retries >= 1
  /\ Len(scheduled) = retries
  /\ published[Len(published) - 1] = DisconnectedMax

\* the error listener of channel c runs in this step
ErrorSignalStep(c) == chan[c] # "failing" /\ chan'[c] = "failing"

\* C27: the error signal of a channel cancels the connect timeout when one is
\* armed and changes nothing else: the connection state, the retry counter,
\* the current session and channel, the reconnect timer and its flag stay as
\* they are, nothing is published and no callback is called; the transition is
\* made when the close signal of the channel is handled.
C27_ErrorAloneNoTransition ==
  [][\A c \in DOMAIN chan :
       ErrorSignalStep(c) =>
         /\ timers' = timers \ {connectionTimeout}
         /\ connectionTimeout' = NoTimer
         /\ UNCHANGED <<connectionState, retryCount, session, currentWs,
                        reconnectTimeout, isReconnecting, disposed, history>>
         /\ pendingReconnects' = pendingReconnects]_vars

\* a channel signalled an error while its connect timeout was armed; the state
\* is still Connecting, and the close signal comes next
C27_Witness ==
  /\ status = "connecting"
  /\ chan[currentWs] = "failing"
  /\ timers = {}
  /\ currentWs >= 1

\* C28: the delay a reconnect timer is armed with and the nextRetryMs
\* published in state Reconnecting are never negative, whatever the configured
\* backoffStrategy returns.
C28_DelayNonNegative ==
  /\ \A t \in pendingReconnects : t.delay >= 0
  /\ status = "reconnecting" => connectionState.nextRetryMs >= 0

\* C29: backoffStrategy has been called once for each retry scheduled, with
\* the retry count of that retry, which is between 1 and `retries` (never 0);
\* and while the retry is pending, the delay of its timer and the nextRetryMs
\* of the published state Reconnecting{attempt: k} are one and the same value,
\* a result of backoffStrategy(k).
C29_StrategyOncePerRetry ==
  /\ evaluated = scheduled
  /\ \A i \in 1..Len(evaluated) : 1 <= evaluated[i] /\ evaluated[i] <= retries
  /\ \A t \in pendingReconnects :
       LET k == evaluated[Len(evaluated)]
       IN /\ connectionState = Reconnecting(k, t.delay)
          /\ published[Len(published)] = Pub(connectionState)
          /\ t.delay \in BackoffResults(backoffStrategy, k)
          /\ k = retryCount

\* the second retry is pending: the strategy was called with 1 and then with 2
C29_Witness ==
  /\ evaluated = <<1, 2>>
  /\ pendingReconnects # {}
  /\ status = "reconnecting"
  /\ backoffStrategy = "linear"
  /\ connectionState.nextRetryMs = 4000

\* the cleanup of the effect of component c for key k runs in this step: the
\* component unmounts, or commits a render with another key
CleanupRuns(c, k) ==
  /\ consumer[c].attached # NoCall
  /\ k = useCapnWebKey(consumer[c].attached)
  /\ consumer'[c].attached # consumer[c].attached
  /\ consumer'[c].attached # NoCall => useCapnWebKey(consumer'[c].attached) # k

\* the effect of component c for key k runs in this step: the commit of its
\* first render, or of a render with another key
EffectRuns(c, k) ==
  /\ consumer[c].phase = "rendered" /\ consumer'[c].phase = "attached"
  /\ k = useCapnWebKey(consumer[c].call)
  /\ consumer[c].attached # NoCall => useCapnWebKey(consumer[c].attached) # k

pendingEntry(k) == k \in DOMAIN promiseCache /\ trackers[promiseCache[k]].status = "pending"

\* C30: the cleanup of an effect removes the entry of its key, pending or not;
\* the run of an effect removes the entry of its key exactly when that entry
\* is settled and leaves a pending entry as it is; and neither touches the
\* entry of any other key.
C30_EvictionOnDetach ==
  [][\A c \in Consumers :
       LET old == useCapnWebKey(consumer[c].attached)
           new == useCapnWebKey(consumer[c].call)
       IN /\ CleanupRuns(c, old) => old \notin DOMAIN promiseCache'
          /\ EffectRuns(c, new) =>
               IF pendingEntry(new)
               THEN new \in DOMAIN promiseCache' /\ promiseCache'[new] = promiseCache[new]
               ELSE new \notin DOMAIN promiseCache'
          /\ consumer'[c] # consumer[c] /\ consumer'[c].phase \in {"attached", "unmounted"} =>
               \A k \in DOMAIN promiseCache \cup DOMAIN promiseCache' :
                 (~CleanupRuns(c, k) /\ ~EffectRuns(c, k)) =>
                    /\ k \in DOMAIN promiseCache /\ k \in DOMAIN promiseCache'
                    /\ promiseCache'[k] = promiseCache[k]]_vars

\* a component still waits for a pending promise whose entry the detaching
\* consumer of the key has removed
C30_Witness ==
  \E c \in Consumers :
    /\ consumer[c].phase = "suspended"
    /\ trackers[consumer[c].promise].status = "pending"
    /\ useCapnWebKey(consumer[c].call) \notin DOMAIN promiseCache

\* the entry of key k is settled and older than the staleness threshold
staleEntry(k) ==
  /\ trackers[promiseCache[k]].status # "pending"
  /\ now - trackers[promiseCache[k]].timestamp > STALE_PROMISE_MS

\* C31: a run of the sweep removes exactly the entries that are settled and
\* older than the staleness threshold: it keeps every pending entry, however
\* old, keeps every settled entry whose age is at most the threshold, adds no
\* entry and changes none.
C31_SweepRemovesStaleSettled ==
  [][sweeps' # sweeps =>
       /\ DOMAIN promiseCache' = {k \in DOMAIN promiseCache : ~staleEntry(k)}
       /\ \A k \in DOMAIN promiseCache' : promiseCache'[k] = promiseCache[k]
       /\ trackers' = trackers]_vars

\* a sweep has removed the entry of a promise that settled more than the
\* threshold ago and has kept a pending entry of the same age
C31_Witness ==
  /\ sweeps >= 1
  /\ \E i \in 1..Len(trackers) :
       /\ trackers[i].status = "resolved"
       /\ now - trackers[i].timestamp > STALE_PROMISE_MS
       /\ trackers[i].key \notin DOMAIN promiseCache
  /\ \E k \in DOMAIN promiseCache :
       /\ trackers[promiseCache[k]].status = "pending"
       /\ now - trackers[promiseCache[k]].timestamp > STALE_PROMISE_MS

\* C32: a component that has rendered a call whose function throws at once
\* holds a rejected promise, the exception did not leave the hook, and the
\* promise is the one in the cache under the key of the call, so every
\* component that renders the call holds the same promise.
C32_SyncThrowBecomesRejection ==
  \A c \in Consumers :
    (consumer[c].phase # "unmounted" /\ consumer[c].call \in SyncThrowCalls) =>
       /\ consumer[c].phase # "threw"
       /\ consumer[c].promise # Null
       /\ trackers[consumer[c].promise].status = "rejected"
       /\ useCapnWebKey(consumer[c].call) \in DOMAIN promiseCache
       /\ promiseCache[useCapnWebKey(consumer[c].call)] = consumer[c].promise

\* C33: a tracker is created pending; in every step its status either stays
\* or goes from pending to resolved or to rejected, and its key, call, session
\* and timestamp stay; and a key that keeps its entry keeps the same promise.
C33_StatusMonotone ==
  [][/\ Len(trackers') >= Len(trackers)
     /\ \A i \in 1..Len(trackers') :
          IF i > Len(trackers)
          THEN trackers'[i].status = "pending"
          ELSE /\ [trackers'[i] EXCEPT !.status = "pending"]
                    = [trackers[i] EXCEPT !.status = "pending"]
               /\ trackers'[i].status # trackers[i].status =>
                    /\ trackers[i].status = "pending"
                    /\ trackers'[i].status \in {"resolved", "rejected"}
     /\ \A k \in DOMAIN promiseCache \cap DOMAIN promiseCache' :
          promiseCache'[k] = promiseCache[k]]_vars

\* one entry has resolved and another has been rejected, both still cached
C33_Witness ==
  /\ Cardinality(DOMAIN promiseCache) = 2
  /\ \E k \in DOMAIN promiseCache : trackers[promiseCache[k]].status = "resolved"
  /\ \E k \in DOMAIN promiseCache : trackers[promiseCache[k]].status = "rejected"

\* the hook a call is made with
isQuery(call) == "operationName" \in DOMAIN call

\* C34: a named query and a method call never have the same key: the promise
\* a component holds was created by a call of the same hook as its own, a
\* named query never being handed the promise of a method call nor the reverse.
C34_QueryKeysDisjoint ==
  \A c \in Consumers :
    consumer[c].promise # Null =>
      isQuery(trackers[consumer[c].promise].call) = isQuery(consumer[c].call)

\* positions in the call record of the calls of one name
CallPositions(name) == {i \in 1..Len(calls) : calls[i].name = name}

\* C35: once close() has been called the closed flag is set, whatever throws;
\* close() has then called onClose once, after it Symbol.dispose of the
\* session once (when there is a session that has it), and after that the
\* listeners once, also when onClose or the disposal threw; before close()
\* none of them is called.
C35_CloseOrderedAndIsolated ==
  /\ closeCalls >= 1 => isClosed
  /\ ~isClosed => calls = <<>>
  /\ isClosed =>
       /\ Cardinality(CallPositions("onClose")) = 1
       /\ Cardinality(CallPositions("notifyListeners")) = 1
       /\ Cardinality(CallPositions("Symbol.dispose"))
            = IF coreSession # Null /\ sessionDisposable THEN 1 ELSE 0
       /\ \A i \in CallPositions("onClose") :
            \A j \in CallPositions("Symbol.dispose") \cup CallPositions("notifyListeners") :
              i < j
       /\ \A i \in CallPositions("Symbol.dispose") :
            \A j \in CallPositions("notifyListeners") : i < j

\* closed with a mounted provider, an onClose that throws and a session whose
\* disposal throws: the session was disposed and the listener notified
C35_Witness ==
  /\ isClosed
  /\ throwing = {"onClose", "Symbol.dispose"}
  /\ sessionDisposable
  /\ \E p \in Providers : provider[p].mounted
  /\ calls = <<Call("onClose", Null), Call("Symbol.dispose", coreSession),
               Call("notifyListeners", 1)>>

\* C36: the retry counter is never negative and never exceeds the configured
\* number of retries, and it is 0 whenever the state is Connected.
C36_RetryCountBounds ==
  /\ 0 <= retryCount /\ retryCount <= retries
  /\ connectionState = Connected => retryCount = 0

\* connected by the channel of the last allowed retry: the counter, which had
\* reached `retries`, is back at 0
C36_Witness ==
  /\ connectionState = Connected
  /\ retryCount = 0
  /\ retries >= 1
  /\ published[Len(published) - 1] = Pub(Connecting(retries))

\* connect timeouts that are armed
pendingConnectTimeouts == {t \in timers : t.kind = "connect"}

\* C37: while a reconnect timer is pending the state is Reconnecting and
\* isReconnecting is set; while a connect timeout is armed the state is
\* Connecting; the two are never armed together, and no timer is armed in state
\* Connected, Disconnected or Closed.
C37_TimerStateCoupling ==
  /\ pendingReconnects # {} => status = "reconnecting" /\ isReconnecting
  /\ pendingConnectTimeouts # {} => status = "connecting"
  /\ pendingReconnects = {} \/ pendingConnectTimeouts = {}
  /\ status \in {"connected", "disconnected", "closed"} => timers = {}

\* the retry after a lost connection is pending, and it is the only timer
C37_Witness ==
  /\ opens >= 1
  /\ status = "reconnecting"
  /\ isReconnecting
  /\ timers = {reconnectTimeout}
  /\ reconnectTimeout.kind = "reconnect"

\* channels that have not delivered their close signal
liveChannels == {c \in DOMAIN chan : chan[c] # "closed"}

\* C38: at most one channel has not yet delivered its close signal; a channel
\* is created only by the reconnect timer, when every earlier channel has
\* delivered its close signal; and the current-channel reference is the channel
\* created last, or none once close() has been called.
C38_OneLiveChannel ==
  /\ [](/\ Cardinality(liveChannels) <= 1
        /\ currentWs = IF isClosed THEN Null ELSE Cardinality(DOMAIN chan) - 1)
  /\ [][DOMAIN chan' # DOMAIN chan =>
          /\ liveChannels = {}
          /\ reconnectTimeout \in timers /\ reconnectTimeout \notin timers'
          /\ DOMAIN chan' = DOMAIN chan \cup {currentWs'}]_vars

\* the third channel is open and is the current one; the two before it have
\* delivered their close signals
C38_Witness ==
  /\ currentWs = 2
  /\ chan[2] = "open"
  /\ chan[0] = "closed"
  /\ chan[1] = "closed"

\* C39: the cache is not invalidated by a session swap: a lookup whose key
\* has an entry returns the promise of that entry and leaves it as it is, and
\* that promise was created, at the first lookup of the key, against the
\* session that was current then, whatever reconnects have replaced since.
C39_CacheSurvivesSwap ==
  [][/\ \A c \in Consumers :
          LookedUp(c) /\ currCacheKey(consumer'[c].call) \in DOMAIN promiseCache =>
            /\ consumer'[c].promise = promiseCache[currCacheKey(consumer'[c].call)]
            /\ trackers' = trackers
            /\ promiseCache' = promiseCache
     /\ Len(trackers') > Len(trackers) =>
          trackers'[Len(trackers')].api = session]_vars

====
